---- MODULE Spec2Model ----
(***************************************************************************)
(* knxcal: iCal to KNX gateway (src/knxcal.py).                            *)
(*                                                                         *)
(* Time is counted in ticks, TicksPerSecond ticks to the second, so that   *)
(* the sub-second part of datetime differences and the conversions the     *)
(* code applies to them (int(), / 60 / 60) are visible.                    *)
(***************************************************************************)
EXTENDS Integers, Sequences, FiniteSets, TLC

VARIABLES
    now,        \* the wall clock, in ticks
    config,     \* self.config, self.match, self.busaccess, self.statekeeping
    statefile,  \* the file self.statefile on disk
    pc,         \* position of the running invocation of run()
    events,     \* self.events, in the order of the feed
    idx,        \* index of the event the loop of run() is at
    trigger,    \* the trigger run() holds for events[idx]
    state,      \* the local variable state of _heartbeat_if_needed
    sent,       \* history: what reached the Bus Sink, in order
    cycle,      \* history: number of invocations of run() started
    advances,   \* history: number of clock advances
    probe       \* the exception that ended run(); in SpecTrigger and
                \* SpecLedger the result of the function applied

vars == <<now, config, statefile, pc, events, idx, trigger, state, sent,
          cycle, advances, probe>>

(***************************************************************************)
(* Bounds of the model.                                                    *)
(***************************************************************************)
TicksPerSecond == 2
MaxRules == 2
MaxCycles == 2
MaxAdvances == 2

(***************************************************************************)
(* Program constants.                                                      *)
(***************************************************************************)
SecondsPerHour == 60 * 60
SecondsPerMinute == 60
ExpireHours == 24 * 7
FetchWindowDays == 2

Second == TicksPerSecond
Minute == SecondsPerMinute * Second
Hour == SecondsPerHour * Second

(***************************************************************************)
(* Conversions of a timedelta (here: a number of ticks).                   *)
(***************************************************************************)
\* int(timediff.total_seconds()): whole seconds, truncated toward zero.
int_total_seconds(ticks) ==
    IF ticks >= 0 THEN ticks \div TicksPerSecond
    ELSE -((-ticks) \div TicksPerSecond)

(***************************************************************************)
(* Strings the code inspects are sequences of tokens.                      *)
(***************************************************************************)
IsPrefix(p, s) == Len(p) <= Len(s) /\ SubSeq(s, 1, Len(p)) = p

\* section.startswith("trigger")
startswith_trigger(name) == IsPrefix(<<"trigger">>, name)

\* self.match.match(event.summary): re.match anchors at the start only.
match_summary(pattern, summary) == IsPrefix(pattern, summary)

(***************************************************************************)
(* find_trigger                                                            *)
(***************************************************************************)
\* int(self.config[x].get("offset", 0))
offset_key(section) == IF section.offset = <<>> THEN 0 ELSE section.offset[1]

\* sorted() without reverse=True: ascending offsets.
RECURSIVE insert_sorted_ascending(_, _)
insert_sorted_ascending(s, sorted) ==
    IF sorted = <<>> THEN <<s>>
    ELSE IF offset_key(Head(sorted)) <= offset_key(s)
         THEN <<Head(sorted)>> \o insert_sorted_ascending(s, Tail(sorted))
         ELSE <<s>> \o sorted

\* Position of a new element in a list sorted by descending key: after
\* every element whose key is at least its own (sorted() is stable, also
\* with reverse=True).
RECURSIVE insert_sorted(_, _)
insert_sorted(s, sorted) ==
    IF sorted = <<>> THEN <<s>>
    ELSE IF offset_key(Head(sorted)) >= offset_key(s)
         THEN <<Head(sorted)>> \o insert_sorted(s, Tail(sorted))
         ELSE <<s>> \o sorted

RECURSIVE sort_from(_, _)
sort_from(sections, acc) ==
    IF sections = <<>> THEN acc
    ELSE sort_from(Tail(sections), insert_sorted(Head(sections), acc))

\* sorted(self.config.sections(), reverse=True, key=offset)
sorted_sections(sections) == sort_from(sections, <<>>)

\* ga, dpt, value = (None, None, None): nothing matched yet.
NoTrigger ==
    [raised |-> FALSE, section |-> <<>>, ga |-> <<>>, dpt |-> "", value |-> ""]

RuntimeError ==
    [raised |-> TRUE, section |-> <<>>, ga |-> <<>>, dpt |-> "", value |-> ""]

\* The comparison with <= in place of <.
offset_reached_or_equal(timediff, offset) ==
    int_total_seconds(timediff) <= offset * SecondsPerHour

\* The comparison bounded below: a rule matches only until the instant of
\* its base.
offset_reached_before_base(timediff, offset) ==
    /\ 0 <= int_total_seconds(timediff)
    /\ int_total_seconds(timediff) < offset * SecondsPerHour

\* if int(timediff.total_seconds()) < (offset * 60 * 60)
offset_reached(timediff, offset) ==
    int_total_seconds(timediff) < offset * SecondsPerHour

\* The loop body with the else branch dropped: a rule whose base is neither
\* "begin" nor "end" is skipped.
RECURSIVE trigger_loop_skipping(_, _, _, _)
trigger_loop_skipping(sections, event, t, acc) ==
    IF sections = <<>> THEN acc
    ELSE LET s == Head(sections)
             rest == Tail(sections)
         IN  IF ~startswith_trigger(s.name) \/ s.base \notin {"begin", "end"}
             THEN trigger_loop_skipping(rest, event, t, acc)
             ELSE LET timediff == IF s.base = "begin"
                                  THEN event.start - t
                                  ELSE event.end - t
                  IN  IF offset_reached(timediff, s.offset[1])
                      THEN trigger_loop_skipping(rest, event, t,
                               [raised |-> FALSE, section |-> s.name,
                                ga |-> s.address, dpt |-> s.dpt,
                                value |-> s.value])
                      ELSE trigger_loop_skipping(rest, event, t, acc)

\* The loop body of find_trigger over the sorted sections; acc is
\* (match, ga, dpt, value).
RECURSIVE trigger_loop(_, _, _, _)
trigger_loop(sections, event, t, acc) ==
    IF sections = <<>> THEN acc
    ELSE LET s == Head(sections)
             rest == Tail(sections)
         IN  IF ~startswith_trigger(s.name)
             THEN trigger_loop(rest, event, t, acc)
             ELSE IF s.base \notin {"begin", "end"}
             THEN RuntimeError
             ELSE LET timediff == IF s.base = "begin"
                                  THEN event.start - t
                                  ELSE event.end - t
                  IN  IF offset_reached(timediff, s.offset[1])
                      THEN trigger_loop(rest, event, t,
                               [raised |-> FALSE, section |-> s.name,
                                ga |-> s.address, dpt |-> s.dpt,
                                value |-> s.value])
                      ELSE trigger_loop(rest, event, t, acc)

\* find_trigger(event) at time t: the record returned, NoTrigger for
\* False, RuntimeError when the exception is raised.
find_trigger(sections, event, t) ==
    LET r == trigger_loop(sorted_sections(sections), event, t, NoTrigger)
    IN  IF r.raised THEN RuntimeError
        ELSE IF r.ga # <<>> THEN r
        ELSE NoTrigger

(***************************************************************************)
(* The notification ledger: _read_state, expire_state, _write_state,       *)
(* _is_new.                                                                *)
(*                                                                         *)
(* A state (the unpickled dict) is a function from keys to entries. The    *)
(* entry of an event notification is [notifytime, trigger, event], the     *)
(* entry under "heartbeat" is [notifytime] alone.                          *)
(*                                                                         *)
(* The file on disk is [cond, readable, writable, data]: cond is what the  *)
(* file holds, data the pickled dict when cond = "pickle".                 *)
(***************************************************************************)
EmptyState == <<>>

HeartbeatKey == <<"heartbeat">>

\* "{}_{}_{}_{}_{}".format(event.summary, event.start, event.end, ga, value)
\* The five parts are kept apart: none of them holds a "_" in this model,
\* so the formatted string determines them.
state_key(event, ga, value) ==
    <<event.summary, event.start, event.end, ga, value>>

\* The comparison with <= in place of <.
is_expired_or_due(data, t) ==
    (data.event.end - t) <= -(ExpireHours * SecondsPerHour * TicksPerSecond)

\* The test without the seven days: an entry expires when its event ended.
is_expired_at_end(data, t) == (data.event.end - t) < 0

\* (data["event"].end - datetime.now(UTC)).total_seconds() / 60 / 60 < -(24 * 7)
\* The division is exact: x / 3600 < -168 iff x < -168 * 3600.
is_expired(data, t) ==
    (data.event.end - t) < -(ExpireHours * SecondsPerHour * TicksPerSecond)

\* expire_state: entries without an "event" are skipped, the others are
\* deleted when expired.
expire_state(st, t) ==
    LET expire == {name \in DOMAIN st :
                      /\ "event" \in DOMAIN st[name]
                      /\ is_expired(st[name], t)}
    IN  [name \in DOMAIN st \ expire |-> st[name]]

\* What open(self.statefile, "rb") followed by pickle.load(f) ends in.
\*   "IOError": the file is missing or cannot be read;
\*   "EOFError": no bytes to read at an opcode (an empty file, a file cut
\*       at an opcode boundary);
\*   "UnpicklingError": a file cut inside an opcode's operand, or bytes
\*       that are no pickle;
\*   "": a dict was loaded.
pickle_load(file) ==
    IF file.cond = "missing" \/ ~file.readable THEN "IOError"
    ELSE IF file.cond \in {"empty", "truncated_at_opcode"} THEN "EOFError"
    ELSE IF file.cond \in {"truncated", "corrupt"} THEN "UnpicklingError"
    ELSE ""

\* except EOFError (inner), except IOError (outer)
read_state_catches(exc) == exc \in {"EOFError", "IOError"}

\* _read_state: [raised |-> exception leaving the method or "", st |-> dict]
read_state(file, statekeeping, t) ==
    IF ~statekeeping THEN [raised |-> "", st |-> EmptyState]
    ELSE LET exc == pickle_load(file)
         IN  IF exc = "" THEN [raised |-> "", st |-> expire_state(file.data, t)]
             ELSE IF read_state_catches(exc)
                  THEN [raised |-> "", st |-> EmptyState]
                  ELSE [raised |-> exc, st |-> EmptyState]

\* _write_state without the test of self.statekeeping.
write_state_always(file, statekeeping, st) ==
    IF ~file.writable THEN [raised |-> "IOError", file |-> file]
    ELSE [raised |-> "",
          file |-> [file EXCEPT !.cond = "pickle", !.data = st]]

\* _write_state: [raised, file]. open(self.statefile, "wb") fails with an
\* IOError when the file cannot be written, before anything is changed.
write_state(file, statekeeping, st) ==
    IF ~statekeeping THEN [raised |-> "", file |-> file]
    ELSE IF ~file.writable THEN [raised |-> "IOError", file |-> file]
    ELSE [raised |-> "",
          file |-> [file EXCEPT !.cond = "pickle", !.data = st]]

\* _is_new without the lookup.
is_new_always(file, statekeeping, t, trig, event) ==
    [raised |-> read_state(file, statekeeping, t).raised, new |-> TRUE]

\* _is_new: [raised, new]
is_new(file, statekeeping, t, trig, event) ==
    LET r == read_state(file, statekeeping, t)
        key == state_key(event, trig.ga, trig.value)
    IN  IF r.raised # "" THEN [raised |-> r.raised, new |-> FALSE]
        ELSE [raised |-> "", new |-> key \notin DOMAIN r.st]

\* state = {key: entry}: the dict replaced, not updated.
state_replace(st, key, entry) == [k \in {key} |-> entry]

\* state.update({key: entry})
state_update(st, key, entry) ==
    [k \in DOMAIN st \cup {key} |-> IF k = key THEN entry ELSE st[k]]

(***************************************************************************)
(* Configuration sections. Every section is a record of the same shape;   *)
(* offset and frequency are <<>> when the section has no such key.         *)
(***************************************************************************)
Section(name, offset, base, address, dpt, value, frequency) ==
    [name |-> name, offset |-> offset, base |-> base, address |-> address,
     dpt |-> dpt, value |-> value, frequency |-> frequency]

\* [knxcal]: iCalURL, eventName, stateFile
KnxcalSection == Section(<<"knxcal">>, <<>>, "", <<>>, "", "", <<>>)

\* [trigger<i>] with group address 1/1/i
TriggerSection(i, offset, base) ==
    Section(<<"trigger", ToString(i)>>, <<offset>>, base, <<1, 1, i>>,
            "binary", ToString(i), <<>>)

\* A rule under a name that does not start with "trigger".
OldSection == Section(<<"old", "trigger">>, <<24>>, "begin", <<1, 1, 0>>,
                      "binary", "old", <<>>)

\* [heartbeat] with group address 1/0/0
HeartbeatSection(frequency) ==
    Section(<<"heartbeat">>, <<>>, "", <<1, 0, 0>>, "binary", "True",
            <<frequency>>)

Config(sections, pattern, busaccess, statekeeping) ==
    [sections |-> sections, pattern |-> pattern, busaccess |-> busaccess,
     statekeeping |-> statekeeping]

(***************************************************************************)
(* Values of the variables a specification does not use.                   *)
(***************************************************************************)
NoFile == [cond |-> "missing", readable |-> TRUE, writable |-> TRUE,
           data |-> EmptyState]

NoProbe == [op |-> "none"]

(***************************************************************************)
(* Spec: invocations of run(), one after the other, as cron starts them.   *)
(***************************************************************************)
\* The calendar, in the order of the feed. The clock starts at 0: one
\* event has just ended, one has just begun, one begins in an hour.
CalendarEvents ==
    << [summary |-> <<"Trash">>, start |-> Hour, end |-> 2 * Hour],
       [summary |-> <<"No", "Trash">>, start |-> 0, end |-> Hour],
       [summary |-> <<"Trash", "Paper">>, start |-> -Hour, end |-> 0] >>

\* [trigger1]: 2 hours before the begin; [trigger2]: 1 hour before the end.
MainSections ==
    <<KnxcalSection, TriggerSection(1, 2, "begin"), TriggerSection(2, 1, "end")>>

HeartbeatFrequencies == {0, 60}

ClockSteps == {1, Hour, ExpireHours * Hour}

\* The calendar source returns the events of the calendar that end at or
\* after the start of the window.
\* starttime = datetime.now(UTC) - timedelta(days=2)
fetch_start(t) == t - FetchWindowDays * 24 * Hour

in_window(event, t) == event.end >= fetch_start(t)

Fetchable(t) == {SelectSeq(CalendarEvents, LAMBDA e : in_window(e, t))}

\* sorted(self.events, reverse=True): descending start.
RECURSIVE insert_event_descending(_, _)
insert_event_descending(e, sorted) ==
    IF sorted = <<>> THEN <<e>>
    ELSE IF Head(sorted).start >= e.start
         THEN <<Head(sorted)>> \o insert_event_descending(e, Tail(sorted))
         ELSE <<e>> \o sorted

\* sorted(self.events): ascending start, stable.
RECURSIVE insert_event(_, _)
insert_event(e, sorted) ==
    IF sorted = <<>> THEN <<e>>
    ELSE IF Head(sorted).start <= e.start
         THEN <<Head(sorted)>> \o insert_event(e, Tail(sorted))
         ELSE <<e>> \o sorted

\* for event in self.events: the order of the feed.
unsorted_events(l) == l

RECURSIVE sort_events_from(_, _)
sort_events_from(l, acc) ==
    IF l = <<>> THEN acc
    ELSE sort_events_from(Tail(l), insert_event(Head(l), acc))

sorted_events(l) == sort_events_from(l, <<>>)

\* "heartbeat" in self.config.sections()
heartbeat_sections(sections) ==
    {k \in DOMAIN sections : sections[k].name = <<"heartbeat">>}

has_heartbeat(sections) == heartbeat_sections(sections) # {}

heartbeat_section(sections) ==
    sections[CHOOSE k \in heartbeat_sections(sections) : TRUE]

\* The comparison with >= in place of >.
heartbeat_due_or_equal(timediff, frequency) ==
    timediff >= frequency * SecondsPerMinute * TicksPerSecond

\* timediff.total_seconds() > int(self.config["heartbeat"]["frequency"]) * 60
heartbeat_due(timediff, frequency) ==
    timediff > frequency * SecondsPerMinute * TicksPerSecond

BusCall(kind, key, ga, dpt, value, ok) ==
    [cycle |-> cycle, kind |-> kind, key |-> key, ga |-> ga, dpt |-> dpt,
     value |-> value, at |-> now, ok |-> ok,
     statekeeping |-> config.statekeeping]

\* send_to_ga with the failure of the Bus Sink caught and dropped.
send_to_ga_quiet(kind, key, ga, dpt, value, ok) ==
    IF ~config.busaccess THEN [raised |-> "", sent |-> sent]
    ELSE [raised |-> "",
          sent |-> Append(sent, BusCall(kind, key, ga, dpt, value, ok))]

\* send_to_ga: with bus access disabled nothing is sent and the call
\* returns; otherwise the value goes to the Bus Sink, which delivers it
\* (ok) or fails, and then the exception leaves send_to_ga.
\* [raised, sent]
send_to_ga(kind, key, ga, dpt, value, ok) ==
    IF ~config.busaccess THEN [raised |-> "", sent |-> sent]
    ELSE [raised |-> IF ok THEN "" ELSE "BusError",
          sent |-> Append(sent, BusCall(kind, key, ga, dpt, value, ok))]

\* _send_heartbeat
send_heartbeat(ok) ==
    LET hb == heartbeat_section(config.sections)
    IN  send_to_ga("heartbeat", HeartbeatKey, hb.address, hb.dpt, hb.value, ok)

Running(raised) == [op |-> "run", raised |-> raised]

Init ==
    /\ now = 0
    /\ \E hb \in {<<>>} \cup {<<HeartbeatSection(f)>> : f \in HeartbeatFrequencies} :
           config = Config(MainSections \o hb, <<"Trash">>, TRUE, TRUE)
    /\ \E w \in BOOLEAN : statefile = [NoFile EXCEPT !.writable = w]
    /\ pc = "idle"
    /\ events = <<>>
    /\ idx = 0
    /\ trigger = NoTrigger
    /\ state = EmptyState
    /\ sent = <<>>
    /\ cycle = 0
    /\ advances = 0
    /\ probe = Running("")

\* An exception leaves run(): the invocation is over.
Abort(exc) ==
    /\ pc' = "aborted"
    /\ probe' = Running(exc)

\* main(): c = knxcal(); c.busaccess = not no_knx;
\* c.statekeeping = not no_state; c.run()
\* Every invocation has its own --no-knx and --no-state.
Start ==
    /\ pc \in {"idle", "done", "aborted"}
    /\ cycle < MaxCycles
    /\ cycle' = cycle + 1
    /\ \E ba \in BOOLEAN, sk \in BOOLEAN :
           config' = [config EXCEPT !.busaccess = ba, !.statekeeping = sk]
    /\ pc' = "heartbeat"
    /\ events' = <<>>
    /\ idx' = 0
    /\ trigger' = NoTrigger
    /\ state' = EmptyState
    /\ probe' = Running("")
    /\ UNCHANGED <<now, statefile, sent, advances>>

\* Time passes between two invocations (an invocation itself is taken to
\* run at one instant).
Advance ==
    /\ pc \in {"idle", "done", "aborted"}
    /\ advances < MaxAdvances
    /\ advances' = advances + 1
    /\ \E d \in ClockSteps : now' = now + d
    /\ UNCHANGED <<config, statefile, pc, events, idx, trigger, state, sent,
                   cycle, probe>>

\* _heartbeat_if_needed, lines 78-91: the first heartbeat.
HeartbeatFirst ==
    /\ pc = "heartbeat"
    /\ UNCHANGED <<now, config, events, idx, trigger, cycle, advances>>
    /\ IF ~has_heartbeat(config.sections)
       THEN /\ pc' = "fetch"
            /\ UNCHANGED <<statefile, state, sent, probe>>
       ELSE LET r == read_state(statefile, config.statekeeping, now)
            IN  IF r.raised # ""
                THEN Abort(r.raised) /\ UNCHANGED <<statefile, state, sent>>
                ELSE IF HeartbeatKey \in DOMAIN r.st
                THEN /\ state' = r.st
                     /\ pc' = "heartbeat_check"
                     /\ UNCHANGED <<statefile, sent, probe>>
                ELSE \E ok \in BOOLEAN :
                     LET s == send_heartbeat(ok)
                         st == state_update(r.st, HeartbeatKey,
                                            [notifytime |-> now])
                         w == write_state(statefile, config.statekeeping, st)
                     IN  /\ sent' = s.sent
                         /\ IF s.raised # ""
                            THEN Abort(s.raised) /\ UNCHANGED <<statefile, state>>
                            ELSE /\ state' = st
                                 /\ statefile' = w.file
                                 /\ IF w.raised # ""
                                    THEN Abort(w.raised)
                                    ELSE pc' = "heartbeat_check"
                                         /\ UNCHANGED probe

\* _heartbeat_if_needed, lines 92-109: the cadence.
HeartbeatCheck ==
    /\ pc = "heartbeat_check"
    /\ UNCHANGED <<now, config, events, idx, trigger, cycle, advances>>
    /\ LET hb == heartbeat_section(config.sections)
           timediff == now - state[HeartbeatKey].notifytime
       IN  IF ~heartbeat_due(timediff, hb.frequency[1])
           THEN /\ pc' = "fetch"
                /\ UNCHANGED <<statefile, state, sent, probe>>
           ELSE \E ok \in BOOLEAN :
                LET s == send_heartbeat(ok)
                    st == state_update(state, HeartbeatKey, [notifytime |-> now])
                    w == write_state(statefile, config.statekeeping, st)
                IN  /\ sent' = s.sent
                    /\ IF s.raised # ""
                       THEN Abort(s.raised) /\ UNCHANGED <<statefile, state>>
                       ELSE /\ state' = st
                            /\ statefile' = w.file
                            /\ IF w.raised # ""
                               THEN Abort(w.raised)
                               ELSE pc' = "fetch" /\ UNCHANGED probe

\* _fetch_ical
Fetch ==
    /\ pc = "fetch"
    /\ events' \in Fetchable(now)
    /\ idx' = 1
    /\ pc' = "loop"
    /\ UNCHANGED <<now, config, statefile, trigger, state, sent, cycle,
                   advances, probe>>

\* The loop without the filter.
passes_always(pattern, event) == TRUE

\* if self.match.match(event.summary)
passes_filter(pattern, event) == match_summary(pattern, event.summary)

\* The else branch of lines 302-303 with a break: the loop ends at an
\* event already notified (the index goes past the last of the n events).
nothing_to_do_break(i, n) == n + 1

\* else: logging.info("Nothing to do for ..."): the loop goes on with the
\* event after the i-th.
nothing_to_do(i, n) == i + 1

\* run(), lines 287-303: one iteration of the loop over sorted(self.events),
\* up to the call of send_if_new.
LoopStep ==
    /\ pc = "loop"
    /\ UNCHANGED <<now, config, statefile, events, state, sent, cycle, advances>>
    /\ IF idx > Len(events)
       THEN pc' = "done" /\ UNCHANGED <<idx, trigger, probe>>
       ELSE LET event == sorted_events(events)[idx]
                t == find_trigger(config.sections, event, now)
                n == is_new(statefile, config.statekeeping, now, t, event)
            IN  IF ~passes_filter(config.pattern, event)
                THEN idx' = idx + 1 /\ UNCHANGED <<pc, trigger, probe>>
                ELSE IF t.raised
                THEN Abort("RuntimeError") /\ UNCHANGED <<idx, trigger>>
                ELSE IF t = NoTrigger
                THEN idx' = idx + 1 /\ UNCHANGED <<pc, trigger, probe>>
                ELSE IF n.raised # ""
                THEN Abort(n.raised) /\ UNCHANGED <<idx, trigger>>
                ELSE IF n.new
                THEN /\ trigger' = t
                     /\ pc' = "send_if_new"
                     /\ UNCHANGED <<idx, probe>>
                ELSE idx' = nothing_to_do(idx, Len(events))
                     /\ UNCHANGED <<pc, trigger, probe>>

\* Where run() goes on after send_if_new returned: break.
after_send_if_new == "done"

\* send_if_new without the test of line 156.
second_check_skipped(file, statekeeping, t, trig, event) ==
    [raised |-> "", new |-> TRUE]

\* if not self._is_new(trigger, event): the check send_if_new makes itself.
second_check(file, statekeeping, t, trig, event) ==
    is_new(file, statekeeping, t, trig, event)

\* send_if_new, called for sorted(self.events)[idx] and trigger.
SendIfNew ==
    /\ pc = "send_if_new"
    /\ UNCHANGED <<now, config, events, idx, trigger, state, cycle, advances>>
    /\ LET event == sorted_events(events)[idx]
           key == state_key(event, trigger.ga, trigger.value)
           n == second_check(statefile, config.statekeeping, now, trigger,
                             event)
           r == read_state(statefile, config.statekeeping, now)
       IN  IF n.raised # ""
           THEN Abort(n.raised) /\ UNCHANGED <<statefile, sent>>
           ELSE IF ~n.new
           THEN /\ pc' = after_send_if_new
                /\ UNCHANGED <<statefile, sent, probe>>
           ELSE IF r.raised # ""
           THEN Abort(r.raised) /\ UNCHANGED <<statefile, sent>>
           ELSE \E ok \in BOOLEAN :
                LET s == send_to_ga("event", key, trigger.ga, trigger.dpt,
                                    trigger.value, ok)
                    st == state_update(r.st, key,
                              [notifytime |-> now, trigger |-> trigger,
                               event |-> event])
                    w == write_state(statefile, config.statekeeping, st)
                IN  /\ sent' = s.sent
                    /\ IF s.raised # ""
                       THEN Abort(s.raised) /\ UNCHANGED statefile
                       ELSE /\ statefile' = w.file
                            /\ IF w.raised # ""
                               THEN Abort(w.raised)
                               ELSE pc' = after_send_if_new
                                    /\ UNCHANGED probe

Next ==
    \/ Start
    \/ Advance
    \/ HeartbeatFirst
    \/ HeartbeatCheck
    \/ Fetch
    \/ LoopStep
    \/ SendIfNew

Spec == Init /\ [][Next]_vars

(***************************************************************************)
(* SpecTrigger: find_trigger applied to bounded inputs.                    *)
(***************************************************************************)
RuleOffsets == {-1, 0, 2, 24}
RuleBases == {"begin", "end", "start"}

ProbeEvent == [summary |-> <<"Trash">>, start |-> 48 * Hour, end |-> 49 * Hour]

\* The instants around every threshold of every rule, and the instants 1
\* and 5 hours before the start of the event.
TriggerInstants ==
    {b - o * Hour + d :
        b \in {ProbeEvent.start, ProbeEvent.end}, o \in RuleOffsets,
        d \in {-Second, -1, 0, 1, Second}}
    \cup {ProbeEvent.start - Hour, ProbeEvent.start - 5 * Hour}

RECURSIVE RuleLists(_)
RuleLists(n) ==
    IF n = 0 THEN {<<>>}
    ELSE LET shorter == RuleLists(n - 1)
         IN  shorter \cup
             {Append(l, TriggerSection(n, o, b)) :
                 l \in {x \in shorter : Len(x) = n - 1},
                 o \in RuleOffsets, b \in RuleBases}

TriggerConfigs ==
    {<<KnxcalSection>> \o rules \o extra :
        rules \in RuleLists(MaxRules), extra \in {<<>>, <<OldSection>>}}

InitTrigger ==
    /\ now \in TriggerInstants
    /\ \E sections \in TriggerConfigs :
           config = Config(sections, <<"Trash">>, TRUE, TRUE)
    /\ statefile = NoFile
    /\ pc = "idle"
    /\ events = <<>>
    /\ idx = 0
    /\ trigger = NoTrigger
    /\ state = EmptyState
    /\ sent = <<>>
    /\ cycle = 0
    /\ advances = 0
    /\ probe = NoProbe

EvaluateTrigger ==
    /\ probe.op = "none"
    /\ probe' = [op |-> "find_trigger", event |-> ProbeEvent,
                 result |-> find_trigger(config.sections, ProbeEvent, now)]
    /\ UNCHANGED <<now, config, statefile, pc, events, idx, trigger, state,
                   sent, cycle, advances>>

NextTrigger == EvaluateTrigger

SpecTrigger == InitTrigger /\ [][NextTrigger]_vars

(***************************************************************************)
(* Claims about find_trigger (SpecTrigger).                                *)
(***************************************************************************)
IsTriggerRule(s) == Len(s.name) >= 1 /\ s.name[1] = "trigger"

ValidBases(sections) ==
    \A i \in DOMAIN sections :
        IsTriggerRule(sections[i]) => sections[i].base \in {"begin", "end"}

\* delta of a rule, in whole seconds (the fraction of a second is dropped)
DeltaSeconds(s, e, t) ==
    LET ticks == (IF s.base = "begin" THEN e.start ELSE e.end) - t
    IN  IF ticks >= 0 THEN ticks \div TicksPerSecond
        ELSE -((-ticks) \div TicksPerSecond)

RuleMatches(s, e, t) == DeltaSeconds(s, e, t) < s.offset[1] * 3600

Matching(sections, e, t) ==
    {i \in DOMAIN sections :
        IsTriggerRule(sections[i]) /\ RuleMatches(sections[i], e, t)}

Evaluated == probe.op = "find_trigger" /\ ValidBases(config.sections)

\* C3: when one or more trigger rules match, find_trigger returns a
\* matching rule of the smallest offset, with that rule's name, address,
\* value type and value.
C3_SmallestMatchingOffsetWins ==
    LET secs == config.sections
        m == Matching(secs, probe.event, now)
    IN  (Evaluated /\ m # {}) =>
            \E i \in m :
                /\ \A j \in m : secs[i].offset[1] <= secs[j].offset[1]
                /\ probe.result.section = secs[i].name
                /\ probe.result.ga = secs[i].address
                /\ probe.result.dpt = secs[i].dpt
                /\ probe.result.value = secs[i].value

\* Rules offset=24/begin and offset=2/begin, the event starts in 1 hour:
\* the offset=2 rule was returned.
C3_Witness ==
    /\ Evaluated
    /\ Len(config.sections) = 3
    /\ config.sections[2].offset = <<24>> /\ config.sections[2].base = "begin"
    /\ config.sections[3].offset = <<2>> /\ config.sections[3].base = "begin"
    /\ now = probe.event.start - Hour
    /\ probe.result.section = config.sections[3].name
    /\ probe.result.ga = <<1, 1, 2>>

\* C4: find_trigger returns no rule iff no trigger rule matches, where a
\* rule matches iff its delta in whole seconds is strictly below
\* offset * 3600; the rule returned is a matching trigger rule, never
\* another section.
C4_MatchIffDeltaBelowOffset ==
    LET secs == config.sections
        m == Matching(secs, probe.event, now)
    IN  Evaluated =>
            /\ (probe.result = NoTrigger) <=> (m = {})
            /\ probe.result # NoTrigger =>
                   \E i \in m : probe.result.section = secs[i].name

\* A single rule with a zero or negative offset, evaluated at the instant
\* where delta equals offset * 3600 exactly, beside a section that is no
\* trigger rule and whose threshold is crossed: no rule was returned.
C4_Witness ==
    /\ Evaluated
    /\ Len(config.sections) = 3
    /\ config.sections[3] = OldSection
    /\ config.sections[2].offset[1] <= 0
    /\ config.sections[2].base = "end"
    /\ probe.event.end - now = config.sections[2].offset[1] * Hour
    /\ probe.event.start - now < 24 * Hour
    /\ probe.result = NoTrigger

(***************************************************************************)
(* SpecLedger: _read_state applied to bounded state files.                 *)
(***************************************************************************)
LedgerNow == 200 * Hour

LedgerTrigger ==
    [raised |-> FALSE, section |-> <<"trigger", "1">>, ga |-> <<1, 1, 1>>,
     dpt |-> "binary", value |-> "1"]

\* Events that ended 169 h, 168 h and a tick, 168 h and 167 h before
\* LedgerNow, and one that ends an hour after it.
LedgerEnds ==
    {LedgerNow - 169 * Hour, LedgerNow - ExpireHours * Hour - 1,
     LedgerNow - ExpireHours * Hour, LedgerNow - 167 * Hour,
     LedgerNow + Hour}

LedgerEvent(end) == [summary |-> <<"Trash">>, start |-> end - Hour, end |-> end]

LedgerEntry(end) ==
    [notifytime |-> end - 2 * Hour, trigger |-> LedgerTrigger,
     event |-> LedgerEvent(end)]

LedgerKey(end) == state_key(LedgerEvent(end), LedgerTrigger.ga, LedgerTrigger.value)

\* A heartbeat entry written 190 hours before LedgerNow.
OldHeartbeat == [notifytime |-> LedgerNow - 190 * Hour]

LedgerDicts ==
    {[k \in {LedgerKey(e) : e \in ends} \cup hb |->
         IF k = HeartbeatKey THEN OldHeartbeat
         ELSE LedgerEntry(k[3])] :
        ends \in SUBSET LedgerEnds, hb \in {{}, {HeartbeatKey}}}

FileConds ==
    {"missing", "empty", "truncated_at_opcode", "truncated", "corrupt"}

LedgerFiles ==
    {[cond |-> "pickle", readable |-> r, writable |-> TRUE, data |-> d] :
        r \in BOOLEAN, d \in LedgerDicts}
    \cup
    {[cond |-> c, readable |-> r, writable |-> TRUE, data |-> EmptyState] :
        c \in FileConds, r \in BOOLEAN}

InitLedger ==
    /\ now \in {LedgerNow, LedgerNow + 1}
    /\ \E sk \in BOOLEAN :
           config = Config(<<KnxcalSection>>, <<"Trash">>, TRUE, sk)
    /\ statefile \in LedgerFiles
    /\ pc = "idle"
    /\ events = <<>>
    /\ idx = 0
    /\ trigger = NoTrigger
    /\ state = EmptyState
    /\ sent = <<>>
    /\ cycle = 0
    /\ advances = 0
    /\ probe = NoProbe

Load ==
    /\ probe.op = "none"
    /\ probe' = [op |-> "read_state",
                 result |-> read_state(statefile, config.statekeeping, now)]
    /\ UNCHANGED <<now, config, statefile, pc, events, idx, trigger, state,
                   sent, cycle, advances>>

NextLedger == Load

SpecLedger == InitLedger /\ [][NextLedger]_vars

(***************************************************************************)
(* Claims about _read_state and expire_state (SpecLedger).                 *)
(***************************************************************************)
Loaded ==
    /\ probe.op = "read_state"
    /\ config.statekeeping
    /\ statefile.cond = "pickle"
    /\ statefile.readable

\* C6: a load applies expiry before returning: an event entry is kept iff
\* its event ended at most 168 hours before now, a kept entry is returned
\* as stored, and the "heartbeat" entry is always kept.
C6_LoadAppliesExpiry ==
    Loaded =>
        /\ probe.result.raised = ""
        /\ DOMAIN probe.result.st \subseteq DOMAIN statefile.data
        /\ \A k \in DOMAIN statefile.data :
               /\ k # HeartbeatKey =>
                      (k \in DOMAIN probe.result.st <=>
                          now - statefile.data[k].event.end <= 168 * Hour)
               /\ k = HeartbeatKey => k \in DOMAIN probe.result.st
               /\ k \in DOMAIN probe.result.st =>
                      probe.result.st[k] = statefile.data[k]

\* A file with entries that ended 169 h and 167 h before now and one that
\* ended exactly 168 h before now, and a heartbeat entry older than that,
\* was loaded: the first is gone, the others are there.
C6_Witness ==
    /\ Loaded
    /\ now = LedgerNow
    /\ {LedgerKey(LedgerNow - 169 * Hour), LedgerKey(LedgerNow - 168 * Hour),
        LedgerKey(LedgerNow - 167 * Hour), HeartbeatKey}
           \subseteq DOMAIN statefile.data
    /\ LedgerKey(LedgerNow - 169 * Hour) \notin DOMAIN probe.result.st
    /\ LedgerKey(LedgerNow - 168 * Hour) \in DOMAIN probe.result.st
    /\ LedgerKey(LedgerNow - 167 * Hour) \in DOMAIN probe.result.st
    /\ HeartbeatKey \in DOMAIN probe.result.st

\* C10: loading never fails the caller: whatever the state file holds,
\* _read_state raises nothing, and returns an empty mapping unless a dict
\* was read.
C10_LoadNeverFails ==
    probe.op = "read_state" =>
        /\ probe.result.raised = ""
        /\ (statefile.cond # "pickle" \/ ~statefile.readable) =>
               probe.result.st = EmptyState

(***************************************************************************)
(* Claims about run() (Spec).                                              *)
(***************************************************************************)
EventCalls == {i \in DOMAIN sent : sent[i].kind = "event"}

\* The dict the state file holds.
Ledger == IF statefile.cond = "pickle" THEN statefile.data ELSE <<>>

PatternMatches(summary) == Len(summary) >= 1 /\ summary[1] = "Trash"

Called == Len(sent') = Len(sent) + 1
LastCall == sent'[Len(sent')]

\* C1: once a ledger key was sent and recorded (persistence enabled, the
\* state file writable), the Bus Sink is not invoked for that key again by
\* an invocation with persistence enabled, unless the entry expired first.
C1_AtMostOncePerKey ==
    \A i \in EventCalls, j \in EventCalls :
        ( /\ i < j
          /\ sent[i].key = sent[j].key
          /\ sent[i].ok
          /\ sent[i].statekeeping
          /\ sent[j].statekeeping
          /\ statefile.writable )
        => sent[j].at - sent[j].key[3] > 168 * Hour

\* Two invocations with persistence enabled are over; the key sent by the
\* first is the key of an event and trigger that recurred in the second;
\* the Bus Sink was invoked once for it.
C1_Witness ==
    /\ cycle = 2
    /\ pc = "done"
    /\ config.statekeeping
    /\ statefile.writable
    /\ \E i \in EventCalls :
           /\ sent[i].cycle = 1
           /\ sent[i].ok
           /\ sent[i].statekeeping
           /\ \E k \in DOMAIN events :
                  LET t == find_trigger(config.sections, events[k], now)
                  IN  /\ t # NoTrigger
                      /\ state_key(events[k], t.ga, t.value) = sent[i].key
           /\ \A j \in EventCalls : sent[j].key = sent[i].key => j = i

\* The event-triggered call this invocation made at the present instant.
CallsNow == {i \in EventCalls : sent[i].cycle = cycle /\ sent[i].at = now}

\* The events fetched that pass the filter, have a matching rule and whose
\* key is not in the ledger as loaded now.
Pending ==
    {k \in DOMAIN events :
        LET t == find_trigger(config.sections, events[k], now)
        IN  /\ PatternMatches(events[k].summary)
            /\ t # NoTrigger
            /\ state_key(events[k], t.ga, t.value) \notin
                   DOMAIN read_state(statefile, config.statekeeping, now).st}

\* C2: an invocation makes at most one event-triggered Bus Sink call, and
\* the event it is made for starts no later than any other fetched event
\* that matches and is novel.
C2_OneSendPerCycle ==
    /\ \A i \in EventCalls, j \in EventCalls :
           sent[i].cycle = sent[j].cycle => i = j
    /\ \A i \in CallsNow, k \in Pending :
           sent[i].key[2] <= events[k].start

\* A call was made for one event while another fetched event, starting
\* later, matches and is novel: it was not sent in this invocation.
C2_Witness ==
    /\ pc = "done"
    /\ \E i \in CallsNow, k \in Pending :
           /\ sent[i].ok
           /\ sent[i].key[2] < events[k].start
           /\ \A j \in EventCalls : sent[j].key[1] # events[k].summary

\* C5: a failed Bus Sink call for an event leaves the state file as it was
\* and the exception ends the invocation; when the key was novel in the
\* ledger (state-keeping enabled), it is still absent from the state file
\* until the next invocation reaches its events.
FailedCalls == {i \in EventCalls : ~sent[i].ok}

C5_FailedSendNotRecorded ==
    /\ [][(Called /\ LastCall.kind = "event" /\ ~LastCall.ok) =>
             /\ statefile' = statefile
             /\ pc' = "aborted"
             /\ probe'.raised = "BusError"]_vars
    /\ [](\A i \in FailedCalls :
             ( /\ sent[i].statekeeping
               /\ \/ sent[i].cycle = cycle /\ pc = "aborted"
                  \/ sent[i].cycle + 1 = cycle
                     /\ pc \in {"heartbeat", "heartbeat_check", "fetch"}
               /\ \A j \in EventCalls : j > i => sent[j].key # sent[i].key )
             => sent[i].key \notin DOMAIN Ledger)

\* A call failed in the first invocation and the same key was attempted
\* again in the second.
C5_Witness ==
    \E i \in FailedCalls, j \in EventCalls :
        /\ sent[i].cycle = 1
        /\ sent[j].cycle = 2
        /\ sent[j].key = sent[i].key
        /\ sent[i].statekeeping
        /\ sent[j].ok

\* C7: with a heartbeat section and a persisted "heartbeat" entry the
\* heartbeat is sent iff the time since notifytime exceeds frequency
\* minutes; if it is not sent the state file is left as it is, if it is
\* sent notifytime becomes now; with no "heartbeat" entry it is sent at
\* once and notifytime becomes now. (With bus access disabled the Bus Sink
\* is not called and the entry is written as if it had been.)
HasHeartbeat == \E k \in DOMAIN config.sections :
                    config.sections[k].name = <<"heartbeat">>

Frequency ==
    LET k == CHOOSE k \in DOMAIN config.sections :
                 config.sections[k].name = <<"heartbeat">>
    IN  config.sections[k].frequency[1]

HeartbeatCalled == Called /\ LastCall.kind = "heartbeat" /\ LastCall.at = now

\* send_to_ga returned: the value was delivered, or bus access is disabled.
HeartbeatReturned == IF config.busaccess THEN LastCall.ok ELSE sent' = sent

HeartbeatRecorded ==
    /\ statefile'.cond = "pickle"
    /\ HeartbeatKey \in DOMAIN statefile'.data
    /\ statefile'.data[HeartbeatKey].notifytime = now

C7_HeartbeatCadence ==
    [][ ( /\ HasHeartbeat
          /\ config.statekeeping
          /\ statefile.writable
          /\ pc \in {"heartbeat", "heartbeat_check"} )
        => IF HeartbeatKey \in DOMAIN Ledger
           THEN LET elapsed == now - Ledger[HeartbeatKey].notifytime
                    due == elapsed > Frequency * 60 * TicksPerSecond
                IN  IF pc = "heartbeat"
                    THEN sent' = sent /\ statefile' = statefile
                    ELSE /\ HeartbeatCalled <=> (due /\ config.busaccess)
                         /\ ~due => sent' = sent /\ statefile' = statefile
                         /\ (due /\ HeartbeatReturned) => HeartbeatRecorded
           ELSE /\ pc = "heartbeat"
                /\ HeartbeatCalled <=> config.busaccess
                /\ HeartbeatReturned => HeartbeatRecorded
      ]_vars

\* Frequency 60: the heartbeat sent at 0 by the first invocation was sent
\* again by the second, one tick more than 60 minutes later.
C7_Witness ==
    /\ HasHeartbeat
    /\ Frequency = 60
    /\ cycle = 2
    /\ pc = "fetch"
    /\ now = 60 * Minute + 1
    /\ \E i \in DOMAIN sent, j \in DOMAIN sent :
           /\ sent[i].kind = "heartbeat" /\ sent[i].cycle = 1 /\ sent[i].at = 0
           /\ sent[i].statekeeping /\ sent[i].ok
           /\ sent[j].kind = "heartbeat" /\ sent[j].cycle = 2 /\ sent[j].ok
    /\ HeartbeatKey \in DOMAIN Ledger
    /\ Ledger[HeartbeatKey].notifytime = now

\* C8: with state-keeping disabled no step changes the state file, every
\* event that passes the filter and has a matching rule is taken as new by
\* both novelty checks, and the heartbeat finds no entry.
C8_DisabledPersistence ==
    [][ ~config.statekeeping =>
          /\ statefile' = statefile
          /\ ( /\ pc = "loop"
               /\ idx <= Len(events)
               /\ PatternMatches(sorted_events(events)[idx].summary)
               /\ find_trigger(config.sections, sorted_events(events)[idx], now)
                      # NoTrigger )
             => pc' = "send_if_new"
          /\ (pc = "send_if_new" /\ config.busaccess)
             => Called /\ LastCall.kind = "event"
          /\ (pc = "heartbeat" /\ HasHeartbeat /\ config.busaccess)
             => Called /\ LastCall.kind = "heartbeat"
      ]_vars

\* An invocation with state-keeping disabled sent a key that the state
\* file holds since an earlier invocation.
C8_Witness ==
    /\ cycle = 2
    /\ pc = "done"
    /\ ~config.statekeeping
    /\ \E i \in EventCalls, j \in EventCalls :
           /\ sent[i].cycle = 1 /\ sent[i].statekeeping
           /\ sent[j].cycle = 2 /\ sent[j].key = sent[i].key
           /\ sent[i].key \in DOMAIN Ledger
           /\ Ledger[sent[i].key].notifytime = sent[i].at

\* C9: no Bus Sink call and no ledger entry is for an event whose summary
\* does not match the pattern, and send_if_new is never entered for one.
C9_PatternFilter ==
    /\ \A i \in EventCalls : PatternMatches(sent[i].key[1])
    /\ \A k \in DOMAIN Ledger : k # HeartbeatKey => PatternMatches(k[1])
    /\ pc = "send_if_new" =>
           PatternMatches(sorted_events(events)[idx].summary)

\* The loop went past a fetched event whose summary does not match and
\* for which a rule matches.
C9_Witness ==
    /\ pc = "done"
    /\ \E k \in DOMAIN events :
           /\ k < idx
           /\ ~PatternMatches(sorted_events(events)[k].summary)
           /\ find_trigger(config.sections, sorted_events(events)[k], now)
                  # NoTrigger

\* C11: an I/O failure while saving the ledger does not end the invocation:
\* no invocation is ended by the IOError of _write_state, neither after an
\* event was sent nor after a heartbeat was sent.
C11_WriteFailureDoesNotAbort ==
    ~( /\ pc = "aborted"
       /\ probe.raised = "IOError"
       /\ config.statekeeping
       /\ ~statefile.writable
       /\ \E i \in DOMAIN sent :
              sent[i].cycle = cycle /\ sent[i].at = now /\ sent[i].ok )

(***************************************************************************)
(* SpecConfig: run() under configurations with and without a trigger rule  *)
(* whose base is neither "begin" nor "end".                                *)
(***************************************************************************)
\* The offsets of [trigger3], base = start: sorted before and after the
\* rules of MainSections.
InvalidBaseOffsets == {0, 24}

InvalidRules ==
    {<<>>} \cup {<<TriggerSection(3, o, "start")>> : o \in InvalidBaseOffsets}

InitConfig ==
    /\ now = 0
    /\ \E extra \in InvalidRules,
          hb \in {<<>>, <<HeartbeatSection(SecondsPerMinute)>>} :
           config = Config(MainSections \o extra \o hb, <<"Trash">>, TRUE, TRUE)
    /\ statefile = NoFile
    /\ pc = "idle"
    /\ events = <<>>
    /\ idx = 0
    /\ trigger = NoTrigger
    /\ state = EmptyState
    /\ sent = <<>>
    /\ cycle = 0
    /\ advances = 0
    /\ probe = Running("")

SpecConfig == InitConfig /\ [][Next]_vars

(***************************************************************************)
(* Claims about run() under an invalid base (SpecConfig).                  *)
(***************************************************************************)
InvalidBase == ~ValidBases(config.sections)

\* The sections without the trigger rules of an invalid base.
ValidSections ==
    SelectSeq(config.sections,
              LAMBDA s : IsTriggerRule(s) => s.base \in {"begin", "end"})

\* C12: with a trigger rule whose base is neither begin nor end,
\* find_trigger raises for every event, whatever the other rules are; the
\* invocation ends with that error at the first event that passes the
\* filter; no event-triggered Bus Sink call is made and no event entry is
\* in the ledger.
C12_InvalidBaseIsFatal ==
    /\ [](InvalidBase =>
             /\ \A k \in DOMAIN events :
                    find_trigger(config.sections, events[k], now) = RuntimeError
             /\ pc # "send_if_new"
             /\ EventCalls = {}
             /\ \A k \in DOMAIN Ledger : k = HeartbeatKey)
    /\ [][ ( /\ InvalidBase
             /\ pc = "loop"
             /\ idx <= Len(events)
             /\ PatternMatches(sorted_events(events)[idx].summary) )
           => pc' = "aborted" /\ probe'.raised = "RuntimeError" ]_vars

\* An invocation ended with the RuntimeError at an event for which a rule
\* of a valid base matches.
C12_Witness ==
    /\ InvalidBase
    /\ pc = "aborted"
    /\ probe.raised = "RuntimeError"
    /\ idx \in DOMAIN events
    /\ find_trigger(ValidSections, sorted_events(events)[idx], now) # NoTrigger
    /\ find_trigger(ValidSections, sorted_events(events)[idx], now)
           # RuntimeError

(***************************************************************************)
(* Further claims about run() (Spec).                                      *)
(***************************************************************************)
\* C13: every event entry of the persisted ledger corresponds to a Bus
\* Sink call that was made, and delivered, for the entry's key, address,
\* value type and value, also when bus access is disabled.
C13_EntryOnlyAfterSend ==
    \A k \in DOMAIN Ledger :
        k # HeartbeatKey =>
            \E i \in EventCalls :
                /\ sent[i].ok
                /\ sent[i].key = k
                /\ sent[i].ga = Ledger[k].trigger.ga
                /\ sent[i].dpt = Ledger[k].trigger.dpt
                /\ sent[i].value = Ledger[k].trigger.value

(***************************************************************************)
(* SpecLive: invocations started again and again by the scheduler, each    *)
(* with bus access and state-keeping, a Bus Sink that delivers and a       *)
(* writable state file. Every step of an invocation returns, and the       *)
(* scheduler starts the next invocation when one is over.                  *)
(***************************************************************************)
InitLive == Init /\ statefile.writable

\* main() as Start, with neither --no-knx nor --no-state. The number of
\* invocations is not limited; the history variable cycle stops counting
\* at MaxCycles.
StartScheduled ==
    /\ pc \in {"idle", "done", "aborted"}
    /\ cycle' = IF cycle < MaxCycles THEN cycle + 1 ELSE cycle
    /\ config' = [config EXCEPT !.busaccess = TRUE, !.statekeeping = TRUE]
    /\ pc' = "heartbeat"
    /\ events' = <<>>
    /\ idx' = 0
    /\ trigger' = NoTrigger
    /\ state' = EmptyState
    /\ probe' = Running("")
    /\ UNCHANGED <<now, statefile, sent, advances>>

\* The Bus Sink delivered what was sent in this step.
Delivered == sent' = sent \/ sent'[Len(sent')].ok

Scheduled ==
    \/ StartScheduled
    \/ HeartbeatFirst /\ Delivered
    \/ HeartbeatCheck /\ Delivered
    \/ Fetch
    \/ LoopStep
    \/ SendIfNew /\ Delivered

NextLive == Scheduled \/ Advance

\* WF_vars(LoopStep) with ENABLED <<LoopStep>>_vars written out: an
\* iteration of the loop can be taken exactly when pc = "loop", and it
\* moves idx or pc.
LoopFair == []<>(pc # "loop") \/ []<><<LoopStep>>_vars

\* The scheduler starts an invocation when none runs, and every step of an
\* invocation is taken.
Fairness ==
    /\ WF_vars(StartScheduled)
    /\ WF_vars(HeartbeatFirst /\ Delivered)
    /\ WF_vars(HeartbeatCheck /\ Delivered)
    /\ WF_vars(Fetch)
    /\ LoopFair
    /\ WF_vars(SendIfNew /\ Delivered)

SpecLive == InitLive /\ [][NextLive]_vars /\ Fairness

(***************************************************************************)
(* Claims about repeated invocations (SpecLive).                           *)
(***************************************************************************)
\* The event passes the filter, is in the calendar window, has a matched
\* rule, and the key of that rule is not in the ledger as loaded now.
Waiting(e) ==
    LET t == find_trigger(config.sections, e, now)
    IN  /\ PatternMatches(e.summary)
        /\ e.end >= now - 2 * 24 * Hour
        /\ t # NoTrigger
        /\ state_key(e, t.ga, t.value) \notin
               DOMAIN read_state(statefile, TRUE, now).st

\* The key of the rule matched now was delivered to the Bus Sink and is in
\* the state file.
Served(e) ==
    LET t == find_trigger(config.sections, e, now)
        key == state_key(e, t.ga, t.value)
    IN  /\ t # NoTrigger
        /\ key \in DOMAIN Ledger
        /\ \E i \in EventCalls : sent[i].key = key /\ sent[i].ok

Left(e) == e.end < now - 2 * 24 * Hour

\* C14: an event of the calendar that is waiting is eventually served, or
\* has left the calendar window; and the loop of an invocation runs out
\* without a call only when no fetched event is waiting, so that of two
\* waiting events the second is served by the invocation after the one
\* that served the first.
C14_DeferredEventuallySent ==
    /\ \A k \in DOMAIN CalendarEvents :
           Waiting(CalendarEvents[k])
               ~> (Served(CalendarEvents[k]) \/ Left(CalendarEvents[k]))
    /\ [][ (pc = "loop" /\ pc' = "done") =>
               \A k \in DOMAIN events : ~Waiting(events[k]) ]_vars

\* Two events were waiting at the same instant; the first invocation
\* served the one that starts first, the second invocation the other.
C14_Witness ==
    /\ cycle = 2
    /\ pc = "done"
    /\ \E i \in EventCalls, j \in EventCalls :
           /\ sent[i].cycle = 1 /\ sent[j].cycle = 2
           /\ sent[i].at = sent[j].at
           /\ sent[i].key[2] < sent[j].key[2]
           /\ sent[i].key \in DOMAIN Ledger
           /\ sent[j].key \in DOMAIN Ledger

(***************************************************************************)
(* Claims about the loop of run() (Spec).                                  *)
(***************************************************************************)
\* The event passes the filter, has a matching rule and its key is not in
\* the ledger as loaded now.
Eligible(e) ==
    LET t == find_trigger(config.sections, e, now)
    IN  /\ PatternMatches(e.summary)
        /\ t # NoTrigger
        /\ state_key(e, t.ga, t.value) \notin
               DOMAIN read_state(statefile, config.statekeeping, now).st

\* The events in the order the loop takes them.
Processed == sorted_events(events)

\* C15: the loop takes the events in ascending start order; at an event
\* that fails the filter, has no matching rule or whose key is in the
\* ledger it makes no call and goes on with the next event; at the first
\* event that is eligible it enters send_if_new, and an event-triggered
\* call is for an eligible event that starts no later than any other
\* eligible event.
C15_NotNovelDoesNotStop ==
    [][ /\ \A a \in DOMAIN Processed, b \in DOMAIN Processed :
               a < b => Processed[a].start <= Processed[b].start
        /\ (pc = "loop" /\ idx <= Len(events)) =>
               IF Eligible(Processed[idx])
               THEN pc' = "send_if_new" /\ idx' = idx
               ELSE pc' = "loop" /\ idx' = idx + 1 /\ sent' = sent
        /\ (pc = "loop" /\ pc' = "send_if_new") =>
               \A a \in 1..(idx - 1) : ~Eligible(Processed[a])
        /\ (Called /\ LastCall.kind = "event") =>
               /\ pc = "send_if_new"
               /\ Eligible(Processed[idx])
               /\ LastCall.key[1] = Processed[idx].summary
               /\ LastCall.key[2] = Processed[idx].start
               /\ \A k \in DOMAIN events :
                      Eligible(events[k]) => LastCall.key[2] <= events[k].start
      ]_vars

\* The second invocation went past an event whose key the first had
\* recorded, and past one that fails the filter, and made its call for an
\* event that starts later.
C15_Witness ==
    /\ cycle = 2
    /\ pc = "done"
    /\ config.statekeeping
    /\ idx = 3
    /\ ~PatternMatches(Processed[2].summary)
    /\ LET t == find_trigger(config.sections, Processed[1], now)
       IN  /\ t # NoTrigger
           /\ state_key(Processed[1], t.ga, t.value) \in DOMAIN Ledger
           /\ \E i \in EventCalls :
                  /\ sent[i].cycle = 1
                  /\ sent[i].key = state_key(Processed[1], t.ga, t.value)
    /\ \E j \in EventCalls :
           /\ sent[j].cycle = 2
           /\ sent[j].key[1] = Processed[3].summary
           /\ sent[j].key[2] = Processed[3].start

(***************************************************************************)
(* SpecRace: run() while another invocation of the program, started on the *)
(* same state file, calendar and configuration, gets through its           *)
(* send_if_new.                                                            *)
(***************************************************************************)
\* No heartbeat section: _heartbeat_if_needed returns at line 80.
InitRace ==
    /\ Init
    /\ statefile.writable
    /\ ~has_heartbeat(config.sections)

\* Lines 161-167 as the other invocation executes them, with bus access
\* and state-keeping, for the event this invocation's loop is at: it loads
\* the ledger, sends, records the key and saves. Its call is in sent under
\* cycle 0.
OtherSendIfNew ==
    /\ pc \in {"loop", "send_if_new"}
    /\ idx <= Len(events)
    /\ LET event == sorted_events(events)[idx]
           t == find_trigger(config.sections, event, now)
           key == state_key(event, t.ga, t.value)
           r == read_state(statefile, TRUE, now)
           st == state_update(r.st, key,
                     [notifytime |-> now, trigger |-> t, event |-> event])
       IN  /\ passes_filter(config.pattern, event)
           /\ t # NoTrigger
           /\ r.raised = ""
           /\ key \notin DOMAIN r.st
           /\ sent' = Append(sent,
                  [cycle |-> 0, kind |-> "event", key |-> key, ga |-> t.ga,
                   dpt |-> t.dpt, value |-> t.value, at |-> now, ok |-> TRUE,
                   statekeeping |-> TRUE])
           /\ statefile' = write_state(statefile, TRUE, st).file
    /\ UNCHANGED <<now, config, pc, events, idx, trigger, state, cycle,
                   advances, probe>>

\* The steps of run() without a heartbeat section (HeartbeatFirst goes on
\* to the fetch), and the step of the other invocation.
NextRace ==
    \/ Start
    \/ Advance
    \/ HeartbeatFirst
    \/ Fetch
    \/ LoopStep
    \/ SendIfNew
    \/ OtherSendIfNew

SpecRace == InitRace /\ [][NextRace]_vars

(***************************************************************************)
(* Claims about the two novelty checks (SpecRace).                         *)
(***************************************************************************)
\* The key of the event the loop is at, under the rule find_trigger
\* returns for it now.
KeyAtIdx ==
    LET t == find_trigger(config.sections, Processed[idx], now)
    IN  state_key(Processed[idx], t.ga, t.value)

\* The ledger as this invocation loads it now.
LoadedNow == read_state(statefile, config.statekeeping, now).st

\* This invocation called the Bus Sink for an event in this step.
CalledHere ==
    Called /\ LastCall.kind = "event" /\ LastCall.cycle = cycle /\ cycle > 0

\* C16: this invocation enters send_if_new only for a key the ledger did
\* not hold at the check of run(), and calls the Bus Sink only from
\* send_if_new and only when the ledger still does not hold the key; when
\* the ledger holds the key by then, send_if_new returns without a call
\* and without a save.
C16_BothChecksMustPass ==
    [][ /\ (pc = "loop" /\ pc' = "send_if_new") =>
               KeyAtIdx \notin DOMAIN LoadedNow
        /\ CalledHere =>
               /\ pc = "send_if_new"
               /\ LastCall.key = KeyAtIdx
               /\ KeyAtIdx \notin DOMAIN LoadedNow
        /\ (pc = "send_if_new" /\ KeyAtIdx \in DOMAIN LoadedNow) =>
               /\ pc' = "done"
               /\ sent' = sent
               /\ statefile' = statefile
      ]_vars

\* This invocation, with state-keeping and bus access, found the key novel
\* in run(); the other invocation recorded it; send_if_new returned and
\* this invocation made no call.
C16_Witness ==
    /\ pc = "done"
    /\ cycle = 1
    /\ config.statekeeping
    /\ config.busaccess
    /\ trigger # NoTrigger
    /\ \A i \in DOMAIN sent : sent[i].kind = "event" => sent[i].cycle = 0
    /\ \E i \in EventCalls :
           /\ sent[i].cycle = 0
           /\ sent[i].key = state_key(Processed[idx], trigger.ga, trigger.value)
           /\ sent[i].key \in DOMAIN Ledger

(***************************************************************************)
(* SpecClock: run() with a clock that moves on while _heartbeat_if_needed  *)
(* runs: the datetime.now() of line 93 is read after the send, the         *)
(* datetime.now() of line 87 and the save of line 91.                      *)
(***************************************************************************)
InitClock ==
    /\ Init
    /\ statefile.writable
    /\ has_heartbeat(config.sections)

\* Time passes between line 91 and line 93, or between the load of line 81
\* and line 93.
Elapse ==
    /\ pc = "heartbeat_check"
    /\ advances < MaxAdvances
    /\ advances' = advances + 1
    /\ now' = now + 1
    /\ UNCHANGED <<config, statefile, pc, events, idx, trigger, state, sent,
                   cycle, probe>>

NextClock == Next \/ Elapse

SpecClock == InitClock /\ [][NextClock]_vars

(***************************************************************************)
(* Claims about _heartbeat_if_needed (SpecClock).                          *)
(***************************************************************************)
HeartbeatCalls == {i \in DOMAIN sent : sent[i].kind = "heartbeat"}

\* C17: one invocation of _heartbeat_if_needed calls the Bus Sink at most
\* once, for every frequency and also on the first run, where the cadence
\* check runs on the entry just written; with no heartbeat section it
\* makes no call and writes no "heartbeat" entry.
C17_HeartbeatAtMostOnce ==
    /\ \A i \in HeartbeatCalls, j \in HeartbeatCalls :
           sent[i].cycle = sent[j].cycle => i = j
    /\ ~HasHeartbeat =>
           HeartbeatCalls = {} /\ HeartbeatKey \notin DOMAIN Ledger

(***************************************************************************)
(* Claims about what a save changes (Spec).                                *)
(***************************************************************************)
\* The key the step records: the key of the event send_if_new was called
\* for, or "heartbeat".
RecordedKey ==
    IF pc = "send_if_new"
    THEN state_key(Processed[idx], trigger.ga, trigger.value)
    ELSE HeartbeatKey

\* An event entry whose event ended more than 168 hours ago.
ExpiredNow(k) == k # HeartbeatKey /\ now - Ledger[k].event.end > 168 * Hour

\* C18: a step that changes the state file is a save of send_if_new or of
\* _heartbeat_if_needed; the file then holds the key being recorded, every
\* other entry that has not expired exactly as it was, and nothing else:
\* the entries that are gone are the expired ones.
C18_SaveChangesOnlyRecordedEntry ==
    [][ statefile' # statefile =>
          /\ pc \in {"send_if_new", "heartbeat", "heartbeat_check"}
          /\ statefile'.cond = "pickle"
          /\ RecordedKey \in DOMAIN statefile'.data
          /\ statefile'.data[RecordedKey].notifytime = now
          /\ DOMAIN statefile'.data \subseteq DOMAIN Ledger \cup {RecordedKey}
          /\ \A k \in DOMAIN Ledger \ {RecordedKey} :
                 IF ExpiredNow(k)
                 THEN k \notin DOMAIN statefile'.data
                 ELSE /\ k \in DOMAIN statefile'.data
                      /\ statefile'.data[k] = Ledger[k]
      ]_vars

\* The second invocation recorded an event at the instant of the first:
\* the state file holds the "heartbeat" entry and the event entry the
\* first invocation wrote, and the new entry.
C18_Witness ==
    /\ cycle = 2
    /\ pc = "done"
    /\ now = 0
    /\ HeartbeatKey \in DOMAIN Ledger
    /\ Ledger[HeartbeatKey].notifytime = 0
    /\ Cardinality(DOMAIN Ledger) = 3
    /\ \E i \in EventCalls, j \in EventCalls :
           /\ sent[i].cycle = 1 /\ sent[j].cycle = 2
           /\ sent[i].key # sent[j].key
           /\ {sent[i].key, sent[j].key} \subseteq DOMAIN Ledger
           /\ Ledger[sent[i].key].trigger.ga = sent[i].ga
           /\ Ledger[sent[j].key].trigger.ga = sent[j].ga

(***************************************************************************)
(* SpecMonotone: find_trigger applied to one event under one list of rules *)
(* at two instants, the second later than the first, as in two successive  *)
(* invocations.                                                            *)
(***************************************************************************)
\* The rule lists whose bases are "begin" or "end".
MonotoneConfigs ==
    {<<KnxcalSection>> \o rules :
        rules \in {l \in RuleLists(MaxRules) :
                      \A i \in DOMAIN l : l[i].base \in {"begin", "end"}}}

InitMonotone ==
    /\ now \in TriggerInstants
    /\ \E sections \in MonotoneConfigs :
           config = Config(sections, <<"Trash">>, TRUE, TRUE)
    /\ statefile = NoFile
    /\ pc = "idle"
    /\ events = <<>>
    /\ idx = 0
    /\ trigger = NoTrigger
    /\ state = EmptyState
    /\ sent = <<>>
    /\ cycle = 0
    /\ advances = 0
    /\ probe = NoProbe

\* The clock moves on and find_trigger is applied to the same event again.
EvaluateLater ==
    /\ probe.op = "find_trigger"
    /\ \E t \in TriggerInstants :
           /\ t > now
           /\ now' = t
           /\ probe' = [op |-> "find_trigger_later", event |-> probe.event,
                        earlier_at |-> now, earlier |-> probe.result,
                        result |-> find_trigger(config.sections, probe.event, t)]
    /\ UNCHANGED <<config, statefile, pc, events, idx, trigger, state, sent,
                   cycle, advances>>

NextMonotone == EvaluateTrigger \/ EvaluateLater

SpecMonotone == InitMonotone /\ [][NextMonotone]_vars

(***************************************************************************)
(* Claims about find_trigger over time (SpecMonotone).                     *)
(***************************************************************************)
\* The rules find_trigger returns when each is the only rule.
MatchingAlone(sections, e, t) ==
    {i \in DOMAIN sections :
        /\ IsTriggerRule(sections[i])
        /\ find_trigger(<<sections[i]>>, e, t) # NoTrigger}

\* The offset of the rule a result names.
OffsetOf(result) ==
    LET i == CHOOSE i \in DOMAIN config.sections :
                 config.sections[i].name = result.section
    IN  config.sections[i].offset[1]

\* C19: for a fixed event and fixed rules, every rule that matches at an
\* instant matches at every later instant; once find_trigger has returned
\* a rule it returns a rule at every later instant, and the offset of the
\* rule returned later is not larger.
C19_TriggerMonotone ==
    probe.op = "find_trigger_later" =>
        /\ MatchingAlone(config.sections, probe.event, probe.earlier_at)
               \subseteq MatchingAlone(config.sections, probe.event, now)
        /\ probe.earlier # NoTrigger =>
               /\ probe.result # NoTrigger
               /\ OffsetOf(probe.result) <= OffsetOf(probe.earlier)

\* Rules offset=24/begin and offset=2/begin: five hours before the start
\* the offset=24 rule was returned, one hour before the start the offset=2
\* rule.
C19_Witness ==
    /\ probe.op = "find_trigger_later"
    /\ Len(config.sections) = 3
    /\ config.sections[2].offset = <<24>> /\ config.sections[2].base = "begin"
    /\ config.sections[3].offset = <<2>> /\ config.sections[3].base = "begin"
    /\ probe.earlier_at = probe.event.start - 5 * Hour
    /\ now = probe.event.start - Hour
    /\ probe.earlier.section = config.sections[2].name
    /\ probe.result.section = config.sections[3].name

(***************************************************************************)
(* Claims about expiry and the calendar window (Spec).                     *)
(***************************************************************************)
\* The event entries of the state file that a load at this instant removes.
ExpiringNow ==
    {k \in DOMAIN Ledger :
        k # HeartbeatKey /\ k \notin DOMAIN expire_state(Ledger, now)}

\* C20: every key that expiry removes from the ledger belongs to an event
\* the calendar source does not return any more; the Bus Sink is never
\* called for an event that ended more than 168 hours before the call; and
\* a key that was delivered and recorded is not sent a second time by an
\* invocation with state-keeping, expired or not.
C20_ExpiryNeverReenablesSend ==
    /\ \A k \in ExpiringNow :
           /\ ~in_window(Ledger[k].event, now)
           /\ \A f \in Fetchable(now) :
                  \A a \in DOMAIN f : f[a] # Ledger[k].event
    /\ \A j \in EventCalls :
           /\ sent[j].at - sent[j].key[3] <= 2 * 24 * Hour
           /\ sent[j].at - sent[j].key[3] <= 168 * Hour
    /\ \A i \in EventCalls, j \in EventCalls :
           ( /\ i < j
             /\ sent[i].key = sent[j].key
             /\ sent[i].ok
             /\ sent[i].statekeeping
             /\ statefile.writable )
           => ~sent[j].statekeeping

\* The key the first invocation delivered and recorded has expired at the
\* end of the second: a load does not return it, the fetch of the second
\* invocation did not return its event, and it was not sent again.
C20_Witness ==
    /\ cycle = 2
    /\ pc = "done"
    /\ config.statekeeping
    /\ \E i \in EventCalls :
           /\ sent[i].cycle = 1
           /\ sent[i].ok
           /\ sent[i].statekeeping
           /\ now - sent[i].key[3] > 168 * Hour
           /\ sent[i].key \notin DOMAIN read_state(statefile, TRUE, now).st
           /\ \A a \in DOMAIN events : events[a].summary # sent[i].key[1]
           /\ \A j \in EventCalls : sent[j].key = sent[i].key => j = i

====
